---- MODULE Spec2Model ----
(***************************************************************************)
(* Model of sbcsbol/ice_utils.py: the identifier codec (get_ice_number,    *)
(* get_ice_id), the in-memory record ICEEntry and the repository client    *)
(* ICEClient talking to an ICE server over HTTP.                           *)
(*                                                                         *)
(* Python strings that the code takes apart (identifiers, URLs' id part)   *)
(* are sequences of one-character strings; dictionaries are functions      *)
(* whose DOMAIN is the set of keys present.                                *)
(***************************************************************************)
EXTENDS Integers, Sequences, FiniteSets, TLC

\* ------------------------------------------------------------------ bounds
\* Number of entries the modelled ICE server can hold (ids 1..MaxEntries).
MaxEntries == 2
\* Number of session tokens the modelled ICE server issues.
MaxLogins == 2

\* --------------------------------------------------------------- constants
\* format(ice_number, '06'): minimum width of the zero-padded number.
IdWidth == 6

None == "None"
DEFAULT_ID_PREFIX == <<"S", "B", "C">>
SESSION_KEY == "X-ICE-Authentication-SessionId"

\* The exception kinds the code can end an operation with.
NetworkError == "NetworkError"
ValueError == "ValueError"
AssertionError == "AssertionError"

\* An empty dictionary.
EmptyDict == [k \in {} |-> None]

\* dict.update(): keys of new overwrite, keys only in old are kept.
DictUpdate(old, new) ==
    [k \in (DOMAIN old) \cup (DOMAIN new) |->
        IF k \in DOMAIN new THEN new[k] ELSE old[k]]

\* ------------------------------------------------------- identifier codec
Digits == <<"0", "1", "2", "3", "4", "5", "6", "7", "8", "9">>

IsDigit(c) == \E i \in 1..10 : Digits[i] = c

DigitVal(c) == (CHOOSE i \in 1..10 : Digits[i] = c) - 1

\* str(n) for a non-negative integer.
RECURSIVE Str(_)
Str(n) ==
    IF n < 10 THEN <<Digits[n + 1]>>
    ELSE Str(n \div 10) \o <<Digits[(n % 10) + 1]>>

\* int(s): the value of a string of decimal digits; ok is FALSE where Python
\* raises ValueError (empty string, any non-digit character).
RECURSIVE DigitsValue(_)
DigitsValue(s) ==
    IF s = <<>> THEN 0
    ELSE 10 * DigitsValue(SubSeq(s, 1, Len(s) - 1)) + DigitVal(s[Len(s)])

ParseInt(s) ==
    IF s # <<>> /\ \A i \in 1..Len(s) : IsDigit(s[i])
    THEN [ok |-> TRUE, n |-> DigitsValue(s)]
    ELSE [ok |-> FALSE, n |-> 0]

\* s.replace(p, ''): every non-overlapping occurrence of p, left to right.
RECURSIVE Replace(_, _)
Replace(s, p) ==
    IF p = <<>> \/ s = <<>> THEN s
    ELSE IF Len(p) <= Len(s) /\ SubSeq(s, 1, Len(p)) = p
         THEN Replace(SubSeq(s, Len(p) + 1, Len(s)), p)
         ELSE <<Head(s)>> \o Replace(Tail(s), p)

\* format(n, '06'): zero-padded on the left to IdWidth, never truncated.
RECURSIVE ZeroPad(_)
ZeroPad(s) == IF Len(s) >= IdWidth THEN s ELSE ZeroPad(<<"0">> \o s)

Format06(n) == ZeroPad(Str(n))

\* An identifier handed to the codec is a Python str or a number.
StrId(s) == [str |-> s]
NumId(n) == [num |-> n]
IsStr(x) == "str" \in DOMAIN x

\* get_ice_number(ice_identifier, id_prefix): [ok, s]; ok is FALSE when int()
\* raises ValueError, s is the returned str otherwise.
get_ice_number(ice_identifier, id_prefix) ==
    IF IsStr(ice_identifier)
    THEN LET p == ParseInt(Replace(ice_identifier.str, id_prefix))
         IN  [ok |-> p.ok, s |-> IF p.ok THEN Str(p.n) ELSE <<>>]
    ELSE [ok |-> TRUE, s |-> Str(ice_identifier.num)]

\* get_ice_id(ice_number, id_prefix)
get_ice_id(ice_number, id_prefix) == id_prefix \o Format06(ice_number)

\* ---------------------------------------------------------------- ICEEntry
\* Sequence documents (opaque handles); None is "no document".
Docs == {"docA"}
DocOrNone == Docs \cup {None}

EntryTypes == {"PLASMID"}

\* ICEEntry.__init__(sbol_doc, typ, metadata); metadata None is has_md FALSE.
\* ok is FALSE when the assert fails.
ICEEntry_init(sbol_doc, typ, has_md, md) ==
    IF typ = None /\ ~has_md
    THEN [ok |-> FALSE, metadata |-> EmptyDict, sbol_doc |-> None,
          sbol_doc_updated |-> FALSE]
    ELSE [ok |-> TRUE,
          metadata |-> IF ~has_md THEN [type |-> typ]
                       ELSE IF "type" \notin DOMAIN md
                            THEN DictUpdate(md, [type |-> typ])
                            ELSE md,
          sbol_doc |-> sbol_doc,
          sbol_doc_updated |-> (sbol_doc # None)]

\* ICEEntry.get_ice_number(): [present, n]
entry_get_ice_number(metadata) ==
    IF "id" \in DOMAIN metadata
    THEN [present |-> TRUE, n |-> metadata["id"]]
    ELSE [present |-> FALSE, n |-> 0]

\* ICEEntry.get_ice_id(): the display id, <<>> standing for None.  The
\* module's get_ice_id is called with one argument, so with the default
\* prefix.
entry_get_ice_id(metadata) ==
    LET ice_number == entry_get_ice_number(metadata)
    IN  IF ice_number.present
        THEN get_ice_id(ice_number.n, DEFAULT_ID_PREFIX)
        ELSE <<>>

\* ICEEntry.get_record_id(): the recordId, <<>> standing for None.
entry_get_record_id(metadata) ==
    IF "recordId" \in DOMAIN metadata THEN metadata["recordId"] ELSE <<>>

\* ICEEntry.get_type()
entry_get_type(metadata) == metadata["type"]

\* ICEEntry.set_values(new_metadata)
set_values(metadata, new_metadata) == DictUpdate(metadata, new_metadata)

\* set_sbol_doc marking the record updated on every call.
set_sbol_doc_flag_always(old_doc, new_doc) == TRUE

\* ICEEntry.set_sbol_doc(sbol_doc): the new value of the updated flag.
set_sbol_doc_flag(old_doc, new_doc) == old_doc # None \/ new_doc # None

\* ICEEntry.unset_sbol_doc_updated(): the new value of the updated flag.
unset_sbol_doc_updated == FALSE

\* -------------------------------------------------------------- ICE server
\* The account the server knows: the login response's firstName, lastName
\* and email.
FirstName == "Ada"
LastName == "Lovelace"
AccountEmail == "ada@example.org"

\* A creator a caller may put into a record's metadata by hand.
OtherCreator == <<"Bob">>
OtherEmail == "bob@example.org"

PartIds == 1..MaxEntries

\* The recordId (an opaque string) the server gives entry i.
RecordIdOf(i) == <<"r">> \o Str(i)

NoPart ==
    [exists |-> FALSE, type |-> None, creator |-> <<>>, creatorEmail |-> None,
     seq |-> None]

\* The JSON the server returns for GET /rest/parts/<i>.
ServerMeta(srv, i) ==
    [id |-> i, recordId |-> RecordIdOf(i), type |-> srv[i].type,
     hasSequence |-> (srv[i].seq # None),
     creator |-> srv[i].creator, creatorEmail |-> srv[i].creatorEmail]

\* The entry a URL's id part (a str) addresses: 0 when there is none.
PartAt(srv, target) ==
    LET p == ParseInt(target)
    IN  IF p.ok /\ p.n \in PartIds /\ srv[p.n].exists THEN p.n ELSE 0

\* The entry a recordId addresses: 0 when there is none.
PartWithRecordId(srv, rid) ==
    IF \E i \in PartIds : srv[i].exists /\ RecordIdOf(i) = rid
    THEN CHOOSE i \in PartIds : srv[i].exists /\ RecordIdOf(i) = rid
    ELSE 0

ExistingParts(srv) == {i \in PartIds : srv[i].exists}

\* The id the server gives the next created entry.
NextPartId(srv) == Cardinality(ExistingParts(srv)) + 1

\* The fields of a submitted metadata body the server stores.
StoredFields(body) ==
    [exists |-> TRUE, type |-> body["type"], creator |-> body["creator"],
     creatorEmail |-> body["creatorEmail"]]

\* ------------------------------------------------------------- request log
\* One HTTP request: the endpoint, the id part of its URL (or the recordId
\* of an upload), the session id it carried, the JSON body sent, whether it
\* returned without raising, and the decoded response.
Req(op, target, session, body, ok, resp) ==
    [op |-> op, target |-> target, sid |-> session, body |-> body,
     ok |-> ok, resp |-> resp]

\* The session id a headers dictionary carries: 0 when it has none.
SessionOf(hdrs) == IF SESSION_KEY \in DOMAIN hdrs THEN hdrs[SESSION_KEY] ELSE 0

\* The state a client operation threads through its requests: the record's
\* fields, the server, the requests sent so far, and the exception raised.
\* A request raises NetworkError when the transport fails (the fail-th
\* request of the operation) or the server refuses it.
TransportFails(r, fail) == Len(r.log) + 1 = fail

Raised(r) == r.err # "none"

\* Sequencing: F applied to the state r of the operation so far, unless an
\* exception is propagating, in which case the rest is skipped.  (r is
\* evaluated once and handed on as a value.)
Bind(r, F(_)) == CHOOSE y \in {F(x) : x \in {r}} : TRUE

Then(r, F(_)) == Bind(r, LAMBDA x : IF Raised(x) THEN x ELSE F(x))

\* One request and its response.  accepted: the server serves it; resp and
\* srv2: the decoded response and the server's state when it is served.
Exchange(r, op, target, session, body, accepted, resp, srv2, fail) ==
    LET ok == accepted /\ ~TransportFails(r, fail)
    IN  [r EXCEPT
            !.log = Append(@, Req(op, target, session, body, ok,
                                  IF ok THEN resp ELSE EmptyDict)),
            !.srv = IF ok THEN srv2 ELSE @,
            !.reply = IF ok THEN resp ELSE EmptyDict,
            !.err = IF ok THEN "none" ELSE NetworkError]

\* --------------------------------------------------------------- ICEClient
Username == "ada@example.org"
Psswrd == "secret"

\* What a login endpoint can do: answer, fail at the transport, or answer
\* with a body json.loads cannot read.
LoginOutcomes == {"ok", "neterr", "badjson"}

\* ICEClient.__get_access_token(service, username, psswrd)
get_access_token(r, c, service, username, psswrd, outcome) ==
    LET token == r.issued + 1
        resp == [sessionId |-> token, firstName |-> FirstName,
                 lastName |-> LastName, email |-> AccountEmail]
        body == [email |-> username, password |-> psswrd]
    IN  [r EXCEPT
            !.log = Append(@, Req(service, <<>>, SessionOf(c.headers), body,
                                  outcome # "neterr",
                                  IF outcome = "ok" THEN resp ELSE EmptyDict)),
            !.issued = IF outcome = "ok" THEN token ELSE @,
            !.reply = IF outcome = "ok" THEN resp ELSE EmptyDict,
            !.err = CASE outcome = "ok" -> "none"
                      [] outcome = "neterr" -> NetworkError
                      [] OTHER -> ValueError]

\* The triple reconnect returns, read from the login response.
SessionTriple(resp) ==
    <<resp["sessionId"], <<resp["firstName"], " ", resp["lastName"]>>,
      resp["email"]>>

\* reconnect with no second endpoint.
reconnect_no_fallback(r, c, out1, out2) ==
    Then(get_access_token(r, c, "accesstoken", Username, Psswrd, out1),
         LAMBDA r1 : [r1 EXCEPT !.ret = SessionTriple(r1.reply)])

\* reconnect falling back on any exception ("except Exception").
reconnect_fallback_any(r, c, out1, out2) ==
    Then(Bind(get_access_token(r, c, "accesstoken", Username, Psswrd, out1),
              LAMBDA r1 :
                IF Raised(r1)
                THEN get_access_token([r1 EXCEPT !.err = "none"], c,
                                      "accesstokens", Username, Psswrd, out2)
                ELSE r1),
         LAMBDA r2 : [r2 EXCEPT !.ret = SessionTriple(r2.reply)])

\* ICEClient.reconnect(): ret is (sessionId, 'first last', email).
reconnect(r, c, out1, out2) ==
    Then(Bind(get_access_token(r, c, "accesstoken", Username, Psswrd, out1),
              LAMBDA r1 :
                IF r1.err = NetworkError
                THEN get_access_token([r1 EXCEPT !.err = "none"], c,
                                      "accesstokens", Username, Psswrd, out2)
                ELSE r1),
         LAMBDA r2 : [r2 EXCEPT !.ret = SessionTriple(r2.reply)])

\* __form_metadata writing the session's identity over what the record has.
form_metadata_overwrite(md, c) ==
    DictUpdate(md, [creator |-> c.user, creatorEmail |-> c.email])

\* ICEClient.__form_metadata(ice_entry): the record's own dictionary, with
\* creator and creatorEmail filled in where absent.
form_metadata(md, c) ==
    LET m1 == IF "creator" \notin DOMAIN md
              THEN DictUpdate(md, [creator |-> c.user]) ELSE md
    IN  IF "creatorEmail" \notin DOMAIN m1
        THEN DictUpdate(m1, [creatorEmail |-> c.email]) ELSE m1

\* ICEClient.__get_meta_data(ice_id): reply is the entry's metadata.
get_meta_data(r, c, ice_id, fail) ==
    LET num == get_ice_number(ice_id, c.id_prefix)
        i == PartAt(r.srv, num.s)
    IN  IF ~num.ok THEN [r EXCEPT !.err = ValueError]
        ELSE Exchange(r, "get_meta", num.s, SessionOf(c.headers), EmptyDict,
                      i # 0,
                      IF i # 0 THEN ServerMeta(r.srv, i) ELSE EmptyDict,
                      r.srv, fail)

\* ICEClient.__create_entry(ice_entry): reply is the response, with the new id.
create_entry(r, c, fail) ==
    LET md1 == form_metadata(r.md, c)
        n == NextPartId(r.srv)
        accepted == n \in PartIds /\ md1["type"] \in EntryTypes
    IN  Exchange([r EXCEPT !.md = md1], "create", <<>>, SessionOf(c.headers),
                 md1, accepted, [id |-> n],
                 IF accepted
                 THEN [r.srv EXCEPT ![n] = StoredFields(md1) @@ [seq |-> None]]
                 ELSE r.srv,
                 fail)

\* ICEClient.__update_entry(ice_id, metadata)
update_entry(r, c, ice_id, md, fail) ==
    LET ice_number == get_ice_number(ice_id, c.id_prefix)
        i == PartAt(r.srv, ice_number.s)
        accepted == i # 0 /\ md["type"] \in EntryTypes
    IN  IF ~ice_number.ok THEN [r EXCEPT !.err = ValueError]
        ELSE Exchange(r, "update", ice_number.s, SessionOf(c.headers), md,
                      accepted, [id |-> i],
                      IF accepted
                      THEN [r.srv EXCEPT ![i] = StoredFields(md)
                                                @@ [seq |-> r.srv[i].seq]]
                      ELSE r.srv,
                      fail)

\* ICEClient.__delete_seq(ice_number)
delete_seq(r, c, ice_number, fail) ==
    LET i == PartAt(r.srv, Str(ice_number))
    IN  Exchange(r, "delete_seq", Str(ice_number), c.sid, EmptyDict, i # 0,
                 EmptyDict,
                 IF i # 0 THEN [r.srv EXCEPT ![i].seq = None] ELSE r.srv,
                 fail)

\* ICEClient.__upload_seq_file(record_id, typ, filename): the server attaches
\* the file's document to the entry with that recordId, and refuses when the
\* entry still has a sequence.
upload_seq_file(r, c, record_id, typ, file, fail) ==
    LET i == PartWithRecordId(r.srv, record_id)
        accepted == i # 0 /\ r.srv[i].seq = None
    IN  Exchange(r, "upload", record_id, c.sid,
                 [entryType |-> typ, entryRecordId |-> record_id,
                  file |-> file],
                 accepted, [sequence |-> file],
                 IF accepted THEN [r.srv EXCEPT ![i].seq = file] ELSE r.srv,
                 fail)

\* tempfile.NamedTemporaryFile: the name of the file it creates, one that no
\* live temporary file of the operation has.
NewTempName(r) == Cardinality(r.tmp) + 1

\* tempfile.NamedTemporaryFile(...): the file is created on disk.
NamedTemporaryFile(r) == [r EXCEPT !.tmp = @ \cup {NewTempName(r)}]

\* ICEClient.__upload_sbol(record_id, typ, sbol_doc): the document is written
\* to a temporary file, which is uploaded.  The file is a NamedTemporaryFile()
\* with the default delete=True: it is removed when the file object is closed,
\* which reference counting does when __upload_sbol is left, by return or by
\* exception.
upload_sbol(r, c, record_id, typ, doc, fail) ==
    LET sbol_file == NewTempName(r)
    IN  Bind(upload_seq_file(NamedTemporaryFile(r), c, record_id, typ, doc,
                             fail),
             LAMBDA r1 : [r1 EXCEPT !.tmp = @ \ {sbol_file}])

\* ICEClient.__get_sbol_doc(ice_id): ret is the document read back from the
\* downloaded file.  The file is a NamedTemporaryFile(delete=False), created
\* once the url is built and before the download; nothing removes it.
get_sbol_doc_file(r, c, ice_id, fail) ==
    LET num == get_ice_number(ice_id, c.id_prefix)
        i == PartAt(r.srv, num.s)
        accepted == i # 0 /\ r.srv[i].seq # None
    IN  IF ~num.ok THEN [r EXCEPT !.err = ValueError]
        ELSE Then(Exchange(NamedTemporaryFile(r), "get_sbol", num.s, c.sid,
                           EmptyDict, accepted,
                           IF accepted THEN [sequence |-> r.srv[i].seq]
                           ELSE EmptyDict,
                           r.srv, fail),
                  LAMBDA r1 : [r1 EXCEPT !.ret = r1.reply["sequence"]])

\* set_ice_entry creating an entry whatever the record's id.
write_entry_always_create(r, c, fail) == create_entry(r, c, fail)

\* ICEClient.set_ice_entry, lines 144-148: one write, a create when the record
\* has no 'id' and an update of that id otherwise.  reply is the response.
write_entry(r, c, fail) ==
    LET num == entry_get_ice_number(r.md)
        md1 == form_metadata(r.md, c)
    IN  IF ~num.present
        THEN create_entry(r, c, fail)
        ELSE update_entry([r EXCEPT !.md = md1], c, NumId(num.n), md1, fail)

\* ICEClient.set_ice_entry, lines 150-151 and 167-168: the entry's metadata
\* is fetched and merged into the record.
refresh_entry(r, c, response_id, fail) ==
    Then(get_meta_data(r, c, StrId(get_ice_id(response_id, c.id_prefix)),
                       fail),
         LAMBDA r1 : [r1 EXCEPT !.md = set_values(@, r1.reply)])

\* ICEClient.set_ice_entry, lines 160-165: the record's document, when it
\* has one, is uploaded and the updated flag cleared.
upload_doc(r, c, fail) ==
    IF r.doc = None THEN r
    ELSE Then(upload_sbol(r, c, entry_get_record_id(r.md),
                          entry_get_type(r.md), r.doc, fail),
              LAMBDA r2 : [r2 EXCEPT !.upd = unset_sbol_doc_updated])

\* The sequence part deleting the remote sequence without looking at
\* hasSequence.
sync_sequence_delete_always(r, c, fetched, fail) ==
    IF ~r.upd THEN r
    ELSE Then(delete_seq(r, c, entry_get_ice_number(r.md).n, fail),
              LAMBDA r1 : upload_doc(r1, c, fail))

\* The sequence part clearing the flag whether or not a document was
\* uploaded.
sync_sequence_unset_always(r, c, fetched, fail) ==
    IF ~r.upd THEN r
    ELSE Then(IF "hasSequence" \in DOMAIN fetched /\ fetched["hasSequence"]
              THEN delete_seq(r, c, entry_get_ice_number(r.md).n, fail)
              ELSE r,
              LAMBDA r1 :
                Then(upload_doc(r1, c, fail),
                     LAMBDA r2 : [r2 EXCEPT !.upd = unset_sbol_doc_updated]))

\* The sequence part clearing the flag before the upload is sent.
sync_sequence_unset_first(r, c, fetched, fail) ==
    IF ~r.upd THEN r
    ELSE Then(IF "hasSequence" \in DOMAIN fetched /\ fetched["hasSequence"]
              THEN delete_seq(r, c, entry_get_ice_number(r.md).n, fail)
              ELSE r,
              LAMBDA r1 :
                IF r1.doc = None THEN r1
                ELSE upload_sbol([r1 EXCEPT !.upd = unset_sbol_doc_updated],
                                 c, entry_get_record_id(r1.md),
                                 entry_get_type(r1.md), r1.doc, fail))

\* ICEClient.set_ice_entry, lines 153-165: the sequence part of a save, given
\* the metadata the first refresh fetched.
sync_sequence(r, c, fetched, fail) ==
    IF ~r.upd THEN r
    ELSE Then(IF "hasSequence" \in DOMAIN fetched /\ fetched["hasSequence"]
              THEN delete_seq(r, c, entry_get_ice_number(r.md).n, fail)
              ELSE r,
              LAMBDA r1 : upload_doc(r1, c, fail))

\* set_ice_entry without the refresh that follows the sequence part.
set_ice_entry_one_refresh(r, c, fail) ==
    Then(write_entry(r, c, fail), LAMBDA r1 :
    Then(refresh_entry(r1, c, r1.reply["id"], fail), LAMBDA r2 :
    Then(sync_sequence(r2, c, r2.reply, fail), LAMBDA r3 :
         [r3 EXCEPT !.ret = r1.reply["id"]])))

\* ICEClient.set_ice_entry(ice_entry): ret is response['id'].
set_ice_entry(r, c, fail) ==
    Then(write_entry(r, c, fail), LAMBDA r1 :
    Then(refresh_entry(r1, c, r1.reply["id"], fail), LAMBDA r2 :
    Then(sync_sequence(r2, c, r2.reply, fail), LAMBDA r3 :
    Then(refresh_entry(r3, c, r1.reply["id"], fail), LAMBDA r4 :
         [r4 EXCEPT !.ret = r1.reply["id"]]))))

\* The record get_ice_entry returns: ICEEntry(sbol_doc, metadata=metadata).
fetched_entry(r, doc, fetched) ==
    LET e == ICEEntry_init(doc, None, TRUE, fetched)
    IN  [r EXCEPT !.md = e.metadata, !.doc = e.sbol_doc,
                  !.upd = e.sbol_doc_updated]

\* get_ice_entry downloading the document whatever the metadata reports.
get_ice_entry_always_doc(r, c, ice_id, fail) ==
    Then(get_meta_data(r, c, ice_id, fail), LAMBDA r1 :
    Then(get_sbol_doc_file(r1, c, ice_id, fail),
         LAMBDA r2 : fetched_entry(r2, r2.ret, r1.reply)))

\* ICEClient.get_ice_entry(ice_id): the record becomes the fetched ICEEntry.
get_ice_entry(r, c, ice_id, fail) ==
    Then(get_meta_data(r, c, ice_id, fail), LAMBDA r1 :
    Then(IF r1.reply["hasSequence"]
         THEN get_sbol_doc_file(r1, c, ice_id, fail)
         ELSE [r1 EXCEPT !.ret = None],
         LAMBDA r2 : fetched_entry(r2, r2.ret, r1.reply)))

\* ICEClient.rebuild_blast(): ret is the decoded response.
rebuild_blast(r, c, fail) ==
    Exchange(r, "rebuild_blast", <<>>, SessionOf(c.headers), EmptyDict, TRUE,
             EmptyDict, r.srv, fail)

\* ICEClient.add_permission(ice_id, group_number, read)
add_permission(r, c, ice_id, group_number, read, fail) ==
    LET num == get_ice_number(ice_id, c.id_prefix)
        i == PartAt(r.srv, num.s)
        data == [type |-> IF read THEN "READ_ENTRY" ELSE "WRITE_ENTRY",
                 article |-> "GROUP", articleId |-> group_number]
    IN  IF ~num.ok THEN [r EXCEPT !.err = ValueError]
        ELSE Exchange(r, "add_permission", num.s, SessionOf(c.headers), data,
                      i # 0, data, r.srv, fail)

\* The documents the server's entries can hold.
ServerDocs == {"docA", "docB"}

\* sbol_utils.get_seq(doc): the linear sequence a document encodes.
get_seq(doc) ==
    CASE doc = "docA" -> <<"a", "c">>
      [] doc = "docB" -> <<"A", "C", "G">>

\* str.lower() of one character of a nucleotide sequence.
LowerChar(ch) ==
    CASE ch = "A" -> "a"
      [] ch = "C" -> "c"
      [] ch = "G" -> "g"
      [] ch = "T" -> "t"
      [] OTHER -> ch

\* seq.lower()
Lower(seq) == [i \in 1..Len(seq) |-> LowerChar(seq[i])]

\* sub in s, for strings.
Contains(s, sub) ==
    \E i \in 0..(Len(s) - Len(sub)) : SubSeq(s, i + 1, i + Len(sub)) = sub

\* The alignments a search result reports.
Alignments == { <<"1", "0", "0", "%">>, <<"9", "5", "%">> }

\* The results of a search, as the server reports them: at most one result
\* for an entry, only for entries with a sequence, in any order, each with
\* the alignment the server found.
RECURSIVE ResultLists(_, _)
ResultLists(srv, ids) ==
    {<<>>} \cup
    UNION { { <<[alignment |-> a, entryInfo |-> [id |-> i]]>> \o rest :
                a \in Alignments, rest \in ResultLists(srv, ids \ {i}) } :
            i \in ids }

\* The answers of POST /rest/search the server's index can hold: without
\* 'results', or with a list of results.
SearchResponses(srv) ==
    { [resultCount |-> 0] } \cup
    { [results |-> l] :
        l \in ResultLists(srv, {i \in ExistingParts(srv) : srv[i].seq # None}) }

\* ICEClient.do_blast(seq): reply is the decoded response.
do_blast(r, c, seq, resp, fail) ==
    Exchange(r, "search", <<>>, SessionOf(c.headers),
             [blastQuery |-> [blastProgram |-> "BLAST_N",
                              sequence |-> Lower(seq)]],
             TRUE, resp, r.srv, fail)

\* The test of a result's alignment passing every result.
is_perfect_any(result) == TRUE

\* ICEClient.get_ice_entries_by_seq, line 192: '100%' in result['alignment']
is_perfect(result) == Contains(result.alignment, <<"1", "0", "0", "%">>)

\* The test of an entry's sequence passing every entry.
same_seq_any(doc, seq) == TRUE

\* ICEClient.get_ice_entries_by_seq, line 195
same_seq(doc, seq) == get_seq(doc) = seq

\* The ICEEntry that get_ice_entry left in r, as an object of its own.
EntryOf(r) == [metadata |-> r.md, sbol_doc |-> r.doc, sbol_doc_updated |-> r.upd]

\* ICEClient.get_ice_entries_by_seq, lines 191-196: the loop over the results
\* not yet seen, entries being the list built so far.  ret is the list.
RECURSIVE collect_entries(_, _, _, _, _, _)
collect_entries(r, c, seq, results, entries, fail) ==
    IF results = <<>> THEN [r EXCEPT !.ret = entries]
    ELSE IF ~is_perfect(Head(results))
         THEN collect_entries(r, c, seq, Tail(results), entries, fail)
         ELSE Then(get_ice_entry(r, c, NumId(Head(results).entryInfo.id),
                                 fail),
                   LAMBDA r1 :
                     collect_entries(r1, c, seq, Tail(results),
                                     IF same_seq(r1.doc, seq)
                                     THEN Append(entries, EntryOf(r1))
                                     ELSE entries,
                                     fail))

\* ICEClient.get_ice_entries_by_seq(seq), the server answering the search
\* with resp: ret is the list of entries.
get_ice_entries_by_seq(r, c, seq, resp, fail) ==
    Then(do_blast(r, c, seq, resp, fail), LAMBDA r1 :
         collect_entries(r1, c, seq,
                         IF "results" \in DOMAIN r1.reply
                         THEN r1.reply["results"] ELSE <<>>,
                         <<>>, fail))

\* ------------------------------------------------------------------- state
VARIABLES
    connected,          \* an ICEClient has been constructed
    id_prefix,          \* ICEClient.__id_prefix
    headers,            \* ICEClient.__headers
    sid,                \* ICEClient.__sid
    user,               \* ICEClient.__user
    email,              \* ICEClient.__email
    metadata,           \* ICEEntry.__metadata of the record in hand
    sbol_doc,           \* ICEEntry.__sbol_doc
    sbol_doc_updated,   \* ICEEntry.__sbol_doc_updated
    parts,              \* the server's entries
    issued,             \* the number of session tokens the server has issued
    blast,              \* the server's BLAST index: its answer to a search
    log,                \* the requests of the last operation, in order
    last,               \* the last operation: its input, outcome and the
                        \* record as it was when the operation was called
    tmp_files,          \* the temporary files the last operation created
                        \* and left on disk
    prefixes            \* the id prefixes a client may be constructed with

vars == <<connected, id_prefix, headers, sid, user, email, metadata, sbol_doc,
          sbol_doc_updated, parts, issued, blast, log, last, tmp_files,
          prefixes>>

client_vars == <<connected, id_prefix, headers, sid, user, email>>
entry_vars == <<metadata, sbol_doc, sbol_doc_updated>>
server_vars == <<parts, issued, blast>>

\* The client's fields, as the operators above take them.
Client ==
    [id_prefix |-> id_prefix, headers |-> headers, sid |-> sid, user |-> user,
     email |-> email]

\* The record and the server at the start of an operation.
Start ==
    [md |-> metadata, doc |-> sbol_doc, upd |-> sbol_doc_updated,
     srv |-> parts, issued |-> issued, log |-> <<>>, err |-> "none",
     reply |-> EmptyDict, ret |-> 0, tmp |-> {}]

\* What the last operation found in the record it was called on: its numeric
\* id (0 when it had none), its document and its updated flag.
Snapshot ==
    [id |-> entry_get_ice_number(metadata).n, sbol_doc |-> sbol_doc,
     sbol_doc_updated |-> sbol_doc_updated]

NoSnapshot == [id |-> 0, sbol_doc |-> None, sbol_doc_updated |-> FALSE]

\* The record of an operation that ended in r.
Outcome(op, arg, pre, r) ==
    [op |-> op, arg |-> arg,
     status |-> IF Raised(r) THEN r.err ELSE "ok",
     ret |-> r.ret, pre |-> pre]

\* The server a session starts against: it holds one entry, with a sequence,
\* that somebody else created.
InitialServer ==
    [i \in PartIds |->
        IF i = 1 THEN [exists |-> TRUE, type |-> "PLASMID",
                       creator |-> OtherCreator, creatorEmail |-> OtherEmail,
                       seq |-> "docA"]
        ELSE NoPart]

Init ==
    /\ connected = FALSE
    /\ id_prefix = DEFAULT_ID_PREFIX
    /\ headers = EmptyDict
    /\ sid = 0
    /\ user = <<>>
    /\ email = None
    /\ metadata = [type |-> "PLASMID"]
    /\ sbol_doc = None
    /\ sbol_doc_updated = FALSE
    /\ parts = InitialServer
    /\ issued = 0
    /\ blast = [resultCount |-> 0]
    /\ log = <<>>
    /\ last = [op |-> "none", arg |-> None, status |-> "ok", ret |-> 0,
               pre |-> NoSnapshot]
    /\ tmp_files = {}
    /\ prefixes = {DEFAULT_ID_PREFIX}

\* ----------------------------------------------------------------- actions
\* ICEClient.__init__(url, username, psswrd, id_prefix): logs in; when the
\* login raises, no client comes into being.
Construct ==
    /\ ~connected
    /\ issued < MaxLogins
    /\ \E prefix \in prefixes, out1, out2 \in LoginOutcomes :
        LET h0 == [k \in {"Accept", "Content-Type"} |-> "application/json"]
            c0 == [id_prefix |-> prefix, headers |-> h0, sid |-> 0,
                   user |-> <<>>, email |-> None]
        IN  \E r \in {reconnect(Start, c0, out1, out2)} :
            /\ out1 # "neterr" => out2 = "ok"
            /\ log' = r.log
            /\ tmp_files' = r.tmp
            /\ issued' = r.issued
            /\ last' = Outcome("construct", None, NoSnapshot, r)
            /\ IF Raised(r)
               THEN UNCHANGED client_vars
               ELSE /\ connected' = TRUE
                    /\ id_prefix' = prefix
                    /\ sid' = r.ret[1]
                    /\ user' = r.ret[2]
                    /\ email' = r.ret[3]
                    /\ headers' = DictUpdate(h0, [k \in {SESSION_KEY} |-> r.ret[1]])
    /\ UNCHANGED <<entry_vars, parts, blast, prefixes>>

\* reconnect storing the new session in the client.
ReconnectStoring ==
    /\ connected
    /\ issued < MaxLogins
    /\ \E out1, out2 \in LoginOutcomes :
        \E r \in {reconnect(Start, Client, out1, out2)} :
            /\ out1 # "neterr" => out2 = "ok"
            /\ log' = r.log
            /\ tmp_files' = r.tmp
            /\ issued' = r.issued
            /\ last' = Outcome("reconnect", None, NoSnapshot, r)
            /\ sid' = IF Raised(r) THEN sid ELSE r.ret[1]
    /\ UNCHANGED <<connected, id_prefix, headers, user, email, entry_vars,
                   parts, blast, prefixes>>

\* ICEClient.reconnect() called by the user of the client.
Reconnect ==
    /\ connected
    /\ issued < MaxLogins
    /\ \E out1, out2 \in LoginOutcomes :
        \E r \in {reconnect(Start, Client, out1, out2)} :
            /\ out1 # "neterr" => out2 = "ok"
            /\ log' = r.log
            /\ tmp_files' = r.tmp
            /\ issued' = r.issued
            /\ last' = Outcome("reconnect", None, NoSnapshot, r)
    /\ UNCHANGED <<client_vars, entry_vars, parts, blast, prefixes>>

\* The metadata dictionaries a caller constructs a record with.
MetadataArgs ==
    { EmptyDict,
      [type |-> "PLASMID"] }

\* ICEEntry(sbol_doc, typ, metadata) called by the user: a new record in hand,
\* unless the constructor's assert fails.
NewEntry ==
    /\ \E doc \in DocOrNone, typ \in EntryTypes \cup {None},
          arg \in {[has_md |-> FALSE, md |-> EmptyDict]}
                  \cup {[has_md |-> TRUE, md |-> m] : m \in MetadataArgs} :
        LET has_md == arg.has_md
            md == arg.md
            e == ICEEntry_init(doc, typ, has_md, md)
        IN  /\ last' = [op |-> "new_entry",
                        arg |-> [typ |-> typ, has_md |-> has_md],
                        status |-> IF e.ok THEN "ok" ELSE AssertionError,
                        ret |-> 0, pre |-> NoSnapshot]
            /\ IF e.ok
               THEN /\ metadata' = e.metadata
                    /\ sbol_doc' = e.sbol_doc
                    /\ sbol_doc_updated' = e.sbol_doc_updated
               ELSE UNCHANGED entry_vars
    /\ log' = <<>>
    /\ tmp_files' = {}
    /\ UNCHANGED <<client_vars, server_vars, prefixes>>

\* ICEEntry.set_sbol_doc(sbol_doc)
SetSbolDoc ==
    /\ \E doc \in DocOrNone :
        /\ sbol_doc_updated' = set_sbol_doc_flag(sbol_doc, doc)
        /\ sbol_doc' = doc
        /\ last' = [op |-> "set_sbol_doc", arg |-> doc, status |-> "ok",
                    ret |-> 0, pre |-> Snapshot]
    /\ log' = <<>>
    /\ tmp_files' = {}
    /\ UNCHANGED <<client_vars, server_vars, metadata, prefixes>>

\* The identifiers a caller passes: a number, or a display id formed with
\* the client's prefix or with the default prefix.
IdentifierArgs ==
    { NumId(i) : i \in PartIds }
    \cup { StrId(get_ice_id(i, p)) : i \in PartIds,
                                     p \in prefixes \cup {DEFAULT_ID_PREFIX} }

\* ICEClient.get_ice_entry(ice_id): the fetched record replaces the one in
\* hand.
GetIceEntry ==
    /\ connected
    /\ \E ice_id \in IdentifierArgs, fail \in 0..2 :
        \E r \in {get_ice_entry(Start, Client, ice_id, fail)} :
            /\ fail <= Len(r.log)
            /\ log' = r.log
            /\ tmp_files' = r.tmp
            /\ last' = Outcome("get_ice_entry", None, NoSnapshot, r)
            /\ metadata' = r.md
            /\ sbol_doc' = r.doc
            /\ sbol_doc_updated' = r.upd
    /\ UNCHANGED <<client_vars, server_vars, prefixes>>

\* ICEClient.set_ice_entry(ice_entry) on the record in hand.
SetIceEntry ==
    /\ connected
    /\ "id" \in DOMAIN metadata \/ NextPartId(parts) \in PartIds
    /\ \E fail \in 0..5 :
        \E r \in {set_ice_entry(Start, Client, fail)} :
            /\ fail <= Len(r.log)
            /\ log' = r.log
            /\ tmp_files' = r.tmp
            /\ last' = Outcome("set_ice_entry", None, Snapshot, r)
            /\ metadata' = r.md
            /\ sbol_doc' = r.doc
            /\ sbol_doc_updated' = r.upd
            /\ parts' = r.srv
    /\ UNCHANGED <<client_vars, issued, blast, prefixes>>

\* ICEClient.rebuild_blast()
RebuildBlast ==
    /\ connected
    /\ \E fail \in 0..1 :
        \E r \in {rebuild_blast(Start, Client, fail)} :
            /\ log' = r.log
            /\ tmp_files' = r.tmp
            /\ last' = Outcome("rebuild_blast", None, NoSnapshot, r)
    /\ UNCHANGED <<client_vars, entry_vars, server_vars, prefixes>>

\* ICEClient.add_permission(ice_id, group_number, read)
AddPermission ==
    /\ connected
    /\ \E ice_id \in IdentifierArgs, read \in BOOLEAN, fail \in 0..1 :
        \E r \in {add_permission(Start, Client, ice_id, 1, read, fail)} :
            /\ fail <= Len(r.log)
            /\ log' = r.log
            /\ tmp_files' = r.tmp
            /\ last' = Outcome("add_permission", None, NoSnapshot, r)
    /\ UNCHANGED <<client_vars, entry_vars, server_vars, prefixes>>

\* The sequences a caller searches for.
Queries == { <<"a", "c">>, <<"A", "C">>, <<"A", "C", "G">> }

\* ICEClient.get_ice_entries_by_seq(seq): the record in hand is left alone.
GetIceEntriesBySeq ==
    /\ connected
    /\ \E seq \in Queries, fail \in 0..(1 + 2 * MaxEntries) :
        \E r \in {get_ice_entries_by_seq(Start, Client, seq, blast, fail)} :
            /\ fail <= Len(r.log)
            /\ log' = r.log
            /\ tmp_files' = r.tmp
            /\ last' = Outcome("get_ice_entries_by_seq", seq, NoSnapshot, r)
    /\ UNCHANGED <<client_vars, entry_vars, server_vars, prefixes>>

Next ==
    \/ Construct
    \/ Reconnect
    \/ NewEntry
    \/ SetSbolDoc
    \/ GetIceEntry
    \/ SetIceEntry
    \/ RebuildBlast
    \/ AddPermission
    \/ GetIceEntriesBySeq

Spec == Init /\ [][Next]_vars

\* The metadata of the record a caller holds when the session starts: built
\* by the caller, with or without an id, a creator and a creatorEmail.
HeldMetadata ==
    { [type |-> "PLASMID", creator |-> OtherCreator,
       creatorEmail |-> OtherEmail],
      [type |-> "PLASMID", creator |-> OtherCreator],
      [type |-> "PLASMID", id |-> 1],
      [type |-> "PLASMID", id |-> 1, creatorEmail |-> OtherEmail] }

\* A server that holds no entry yet.
EmptyServer == [i \in PartIds |-> NoPart]

\* A session that starts with such a record in hand, against a server with
\* one entry or none.
InitHeld ==
    /\ connected = FALSE
    /\ id_prefix = DEFAULT_ID_PREFIX
    /\ headers = EmptyDict
    /\ sid = 0
    /\ user = <<>>
    /\ email = None
    /\ metadata \in HeldMetadata
    /\ sbol_doc = None
    /\ sbol_doc_updated = FALSE
    /\ parts \in {InitialServer, EmptyServer}
    /\ issued = 0
    /\ blast = [resultCount |-> 0]
    /\ log = <<>>
    /\ last = [op |-> "none", arg |-> None, status |-> "ok", ret |-> 0,
               pre |-> NoSnapshot]
    /\ tmp_files = {}
    /\ prefixes = {DEFAULT_ID_PREFIX}

\* The caller saves records, fetched, built or held from the start.
NextHeld ==
    \/ Construct
    \/ NewEntry
    \/ SetSbolDoc
    \/ GetIceEntry
    \/ SetIceEntry

SpecHeld == InitHeld /\ [][NextHeld]_vars

\* A session whose client may be constructed with a prefix of its own.
InitPrefix ==
    /\ connected = FALSE
    /\ id_prefix = DEFAULT_ID_PREFIX
    /\ headers = EmptyDict
    /\ sid = 0
    /\ user = <<>>
    /\ email = None
    /\ metadata = [type |-> "PLASMID"]
    /\ sbol_doc = None
    /\ sbol_doc_updated = FALSE
    /\ parts = InitialServer
    /\ issued = 0
    /\ blast = [resultCount |-> 0]
    /\ log = <<>>
    /\ last = [op |-> "none", arg |-> None, status |-> "ok", ret |-> 0,
               pre |-> NoSnapshot]
    /\ tmp_files = {}
    /\ prefixes = {DEFAULT_ID_PREFIX, <<"P", "F", "X">>}

SpecPrefix == InitPrefix /\ [][Next]_vars

\* The servers a search session starts against: the entries 1..k exist, each
\* with no sequence or with one of the server's documents, and the index
\* holds any answer about the entries with a sequence.
SearchServers ==
    { srv \in [PartIds -> {NoPart} \cup
                          { [exists |-> TRUE, type |-> "PLASMID",
                             creator |-> OtherCreator,
                             creatorEmail |-> OtherEmail, seq |-> d] :
                            d \in ServerDocs \cup {None} }] :
        \A i \in PartIds : srv[i].exists => \A j \in 1..i : srv[j].exists }

InitSearch ==
    /\ connected = FALSE
    /\ id_prefix = DEFAULT_ID_PREFIX
    /\ headers = EmptyDict
    /\ sid = 0
    /\ user = <<>>
    /\ email = None
    /\ metadata = [type |-> "PLASMID"]
    /\ sbol_doc = None
    /\ sbol_doc_updated = FALSE
    /\ parts \in SearchServers
    /\ issued = 0
    /\ blast \in SearchResponses(parts)
    /\ log = <<>>
    /\ last = [op |-> "none", arg |-> None, status |-> "ok", ret |-> 0,
               pre |-> NoSnapshot]
    /\ tmp_files = {}
    /\ prefixes = {DEFAULT_ID_PREFIX}

\* A session that searches.
NextSearch ==
    \/ Construct
    \/ GetIceEntriesBySeq

SpecSearch == InitSearch /\ [][NextSearch]_vars

\* The numeric ids and the prefixes a caller hands to the codec.
CodecIds == {1, 5, 10, 12, 123, 999999, 1000000, 1234567}

CodecPrefixes ==
    { DEFAULT_ID_PREFIX, <<"P", "F", "X">>, <<"P">>, <<>>, <<"S", "1">>,
      <<"1">>, <<"0">> }

\* get_ice_id(ice_number, id_prefix) called by the user.
GetIceId ==
    /\ \E n \in CodecIds, p \in CodecPrefixes :
        last' = [op |-> "get_ice_id", arg |-> [n |-> n, p |-> p, str |-> FALSE],
                 status |-> "ok", ret |-> get_ice_id(n, p),
                 pre |-> NoSnapshot]
    /\ log' = <<>>
    /\ tmp_files' = {}
    /\ UNCHANGED <<client_vars, entry_vars, server_vars, prefixes>>

\* get_ice_number(ice_identifier, id_prefix) called by the user, with the
\* prefix of the get_ice_id call before it and either the display id that
\* call returned (a str) or the number that was passed to it.
GetIceNumber ==
    /\ last.op = "get_ice_id"
    /\ \E str \in BOOLEAN :
        LET ice_identifier == IF str THEN StrId(last.ret)
                                     ELSE NumId(last.arg.n)
            num == get_ice_number(ice_identifier, last.arg.p)
        IN  last' = [op |-> "get_ice_number",
                     arg |-> [last.arg EXCEPT !.str = str],
                     status |-> IF num.ok THEN "ok" ELSE ValueError,
                     ret |-> num.s, pre |-> NoSnapshot]
    /\ log' = <<>>
    /\ tmp_files' = {}
    /\ UNCHANGED <<client_vars, entry_vars, server_vars, prefixes>>

\* The identifier codec on its own.
NextCodec ==
    \/ GetIceId
    \/ GetIceNumber

SpecCodec == Init /\ [][NextCodec]_vars

\* ------------------------------------------------------------- properties
\* The positions of the requests of one kind in a log.
Where(l, op) == {i \in DOMAIN l : l[i].op = op}

Writes(l) == Where(l, "create") \cup Where(l, "update")

Logins(l) == Where(l, "accesstoken") \cup Where(l, "accesstokens")

Saved == last.op = "set_ice_entry"

SavedOk == Saved /\ last.status = "ok"

LoggedIn == last.op \in {"construct", "reconnect"}

\* The first refresh of a save returned: the save got as far as its sequence
\* part.
Refreshed == Saved /\ Len(log) >= 2 /\ log[2].op = "get_meta" /\ log[2].ok

ReportsSequence(fetched) ==
    "hasSequence" \in DOMAIN fetched /\ fetched["hasSequence"]

\* C1: set_ice_entry sends exactly one write, first of all its requests: a
\* create when the record had no numeric id, an update of that id when it had
\* one; on success it returns the id of the write's response and the record
\* carries that id.
C1_OneWriteChosenById ==
    Saved =>
        /\ Cardinality(Writes(log)) = 1
        /\ Writes(log) = {1}
        /\ last.pre.id = 0 => log[1].op = "create"
        /\ last.pre.id # 0 =>
              log[1].op = "update" /\ log[1].target = Str(last.pre.id)
        /\ last.status = "ok" =>
              /\ last.ret = log[1].resp["id"]
              /\ "id" \in DOMAIN metadata
              /\ metadata["id"] = last.ret

C1_Witness ==
    /\ SavedOk
    /\ last.pre.id = 0
    /\ log[1].op = "create"
    /\ metadata["id"] = last.ret

\* C2: in a save of a record whose updated flag is set, once the first
\* refresh has returned, the remote sequence is deleted exactly when the
\* fetched metadata reports hasSequence true; a delete comes before any
\* upload; and, unless the delete raised, an upload is sent exactly when the
\* record holds a document.  In a save of a record whose flag is not set,
\* neither is sent.
C2_DeleteAndUpload ==
    Saved =>
        /\ (last.pre.sbol_doc_updated /\ Refreshed) =>
              (Where(log, "delete_seq") # {} <=> ReportsSequence(log[2].resp))
        /\ \A i \in Where(log, "delete_seq"), j \in Where(log, "upload") :
              i < j
        /\ (/\ last.pre.sbol_doc_updated
            /\ Refreshed
            /\ \A i \in Where(log, "delete_seq") : log[i].ok) =>
              (Where(log, "upload") # {} <=> last.pre.sbol_doc # None)
        /\ ~last.pre.sbol_doc_updated =>
              Where(log, "delete_seq") = {} /\ Where(log, "upload") = {}
        /\ ~Refreshed =>
              Where(log, "delete_seq") = {} /\ Where(log, "upload") = {}

C2_Witness ==
    /\ SavedOk
    /\ last.pre.sbol_doc_updated
    /\ Where(log, "delete_seq") = {3}
    /\ Where(log, "upload") = {4}

\* C3: a save that returns has fetched the metadata exactly twice, in the
\* order write, refresh, [delete], [upload], refresh; the record holds the
\* server's value for every key of the last fetch, and after an upload its
\* hasSequence is the server's, true.
C3_TwoRefreshes ==
    SavedOk =>
        /\ Len(log) >= 3
        /\ Cardinality(Where(log, "get_meta")) = 2
        /\ Writes(log) = {1}
        /\ Where(log, "get_meta") = {2, Len(log)}
        /\ [i \in 1..(Len(log) - 3) |-> log[i + 2].op] \in
              {<<>>, <<"delete_seq">>, <<"upload">>,
               <<"delete_seq", "upload">>}
        /\ \A k \in DOMAIN log[Len(log)].resp :
              k \in DOMAIN metadata /\ metadata[k] = log[Len(log)].resp[k]
        /\ Where(log, "upload") # {} =>
              /\ metadata["hasSequence"] = TRUE
              /\ metadata["hasSequence"]
                    = ServerMeta(parts, metadata["id"])["hasSequence"]

C3_Witness ==
    /\ SavedOk
    /\ Where(log, "upload") # {}
    /\ ~ReportsSequence(log[2].resp)
    /\ metadata["hasSequence"] = TRUE

\* C4: a step of the client that takes a record's updated flag from true to
\* false is a save in which an upload for that record returned without error.
C4_ClearedOnlyAfterUpload ==
    [][(/\ sbol_doc_updated
        /\ ~sbol_doc_updated'
        /\ last'.op \notin {"new_entry", "get_ice_entry", "set_sbol_doc"}) =>
            /\ last'.op = "set_ice_entry"
            /\ \E i \in Where(log', "upload") :
                  /\ log'[i].ok
                  /\ log'[i].target = entry_get_record_id(metadata')]_vars

C4_Witness ==
    /\ Saved
    /\ last.pre.sbol_doc_updated
    /\ ~sbol_doc_updated
    /\ \E i \in Where(log, "upload") : log[i].ok

\* C5: when the write of a save has succeeded and its upload raises, the save
\* ends with that error, the updated flag is still set, no request follows
\* the upload (the write is the only write of the call) and the server holds
\* the metadata that was written.
C5_NoRollback ==
    (/\ Saved
     /\ log[1].ok
     /\ \E i \in Where(log, "upload") : ~log[i].ok) =>
        /\ last.status = NetworkError
        /\ sbol_doc_updated
        /\ Where(log, "upload") = {Len(log)}
        /\ Writes(log) = {1}
        /\ LET i == log[1].resp["id"]
           IN  /\ parts[i].exists
               /\ parts[i].type = log[1].body["type"]
               /\ parts[i].creator = log[1].body["creator"]
               /\ parts[i].creatorEmail = log[1].body["creatorEmail"]

C5_Witness ==
    /\ Saved
    /\ log[1].ok
    /\ log[1].op = "create"
    /\ \E i \in Where(log, "upload") : ~log[i].ok
    /\ last.status = NetworkError

\* C6: after set_sbol_doc(new) on a record that held old, the updated flag is
\* (old is a document) or (new is a document), whatever it was, and the
\* record holds new.
C6_FlagIsOldOrNew ==
    last.op = "set_sbol_doc" =>
        /\ sbol_doc_updated = (last.pre.sbol_doc # None \/ last.arg # None)
        /\ sbol_doc = last.arg

C6_Witness ==
    /\ last.op = "set_sbol_doc"
    /\ last.pre.sbol_doc = None
    /\ last.arg = None
    /\ last.pre.sbol_doc_updated
    /\ ~sbol_doc_updated

\* C7: a set_sbol_doc call never takes the updated flag back to false, so the
\* flag is set in every state in which the document has been set since the
\* last synchronisation.
C7_SetNeverClearsFlag ==
    (last.op = "set_sbol_doc" /\ last.pre.sbol_doc_updated) => sbol_doc_updated

AuthenticationError == "AuthenticationError"

C9_AtMostTwoLogins ==
    LoggedIn =>
        /\ Len(log) \in {1, 2}
        /\ log[1].op = "accesstoken"
        /\ Where(log, "accesstoken") = {1}
        /\ Len(log) = 2 <=> ~log[1].ok
        /\ Len(log) = 2 => log[2].op = "accesstokens"

C9_Witness ==
    /\ last.op = "reconnect"
    /\ Len(log) = 2
    /\ ~log[1].ok
    /\ log[2].ok
    /\ last.status = "ok"

\* C10: once the client is constructed no step changes its session id,
\* headers, user name or email; reconnect returns the new session without
\* storing it; every request that is not a login carries the stored session
\* id; and only reconnect sends login requests.
C10_SessionNeverChanges ==
    [][connected =>
        /\ sid' = sid
        /\ headers' = headers
        /\ user' = user
        /\ email' = email
        /\ \A i \in DOMAIN log' :
              IF i \in Logins(log')
              THEN last'.op = "reconnect"
              ELSE log'[i].sid = sid
        /\ (last'.op = "reconnect" /\ last'.status = "ok") =>
              /\ last'.ret[1] = issued'
              /\ last'.ret[1] # sid'
              /\ last'.ret[2] = <<FirstName, " ", LastName>>
              /\ last'.ret[3] = AccountEmail]_vars

C10_Witness ==
    /\ connected
    /\ last.op = "reconnect"
    /\ last.status = "ok"
    /\ last.ret[1] # sid
    /\ SessionOf(headers) = sid

\* C11: after get_ice_entry or set_ice_entry has returned or raised, no
\* temporary file that the call created is left on disk.
C11_NoScratchFileLeft ==
    last.op \in {"get_ice_entry", "set_ice_entry"} => tmp_files = {}

\* C12: get_ice_entry fetches the metadata first and requests the sequence
\* document exactly when the fetched metadata reports hasSequence true; the
\* record it returns holds the fetched metadata, and a document, the one
\* downloaded, exactly when hasSequence is true.
C12_DocumentIffHasSequence ==
    last.op = "get_ice_entry" =>
        /\ Where(log, "get_meta") \subseteq {1}
        /\ Where(log, "get_sbol") \subseteq {2}
        /\ (Len(log) >= 1 /\ log[1].ok) =>
              (Where(log, "get_sbol") # {} <=> log[1].resp["hasSequence"])
        /\ (Len(log) = 0 \/ ~log[1].ok) => Where(log, "get_sbol") = {}
        /\ last.status = "ok" =>
              /\ metadata = log[1].resp
              /\ (sbol_doc # None) <=> log[1].resp["hasSequence"]
              /\ log[1].resp["hasSequence"] =>
                    sbol_doc = log[2].resp["sequence"]

C12_Witness ==
    /\ last.op = "get_ice_entry"
    /\ last.status = "ok"
    /\ log[1].resp["hasSequence"]
    /\ Where(log, "get_sbol") = {2}
    /\ sbol_doc = "docA"
    /\ metadata["id"] = 1

\* A fetch of an entry without a sequence: no document is requested.
C12_WitnessNoSequence ==
    /\ last.op = "get_ice_entry"
    /\ last.status = "ok"
    /\ ~log[1].resp["hasSequence"]
    /\ Len(log) = 1
    /\ sbol_doc = None

\* The position of the k-th request of one kind in a log.
NthWhere(l, op, k) ==
    CHOOSE i \in Where(l, op) : Cardinality({j \in Where(l, op) : j <= i}) = k

Searched == last.op = "get_ice_entries_by_seq"

\* The results the search of the last operation returned.
SearchResults ==
    IF "results" \in DOMAIN log[1].resp THEN log[1].resp["results"] ELSE <<>>

\* Those reported with an alignment of 100%, in the order of the results.
PerfectResults ==
    SelectSeq(SearchResults, LAMBDA x : x.alignment = <<"1", "0", "0", "%">>)

\* Those of them whose entry's document encodes the sequence searched for.
MatchingResults ==
    SelectSeq(PerfectResults,
              LAMBDA x : get_seq(parts[x.entryInfo.id].seq) = last.arg)

\* C13: get_ice_entries_by_seq(q) sends the query in lower case, then fetches
\* the entries of the results reported with a 100% alignment, in the order of
\* the results, and no other entry; when it returns, it has fetched all of
\* them and returns, in that order, the fetched records of exactly those
\* whose document encodes q.
C13_SearchFiltersAndOrders ==
    (Searched /\ log[1].ok) =>
        LET nfetched == Cardinality(Where(log, "get_meta"))
        IN  /\ log[1].op = "search"
            /\ log[1].body["blastQuery"]["sequence"] = Lower(last.arg)
            /\ nfetched <= Len(PerfectResults)
            /\ \A k \in 1..nfetched :
                  log[NthWhere(log, "get_meta", k)].target
                      = Str(PerfectResults[k].entryInfo.id)
            /\ last.status = "ok" =>
                  /\ nfetched = Len(PerfectResults)
                  /\ last.ret =
                        [k \in 1..Len(MatchingResults) |->
                            LET i == MatchingResults[k].entryInfo.id
                            IN  [metadata |-> ServerMeta(parts, i),
                                 sbol_doc |-> parts[i].seq,
                                 sbol_doc_updated |-> TRUE]]

\* Two results for entries that hold the sequence searched for, one at 100%
\* and one at 95%: one fetch, one record returned.
C13_Witness ==
    /\ Searched
    /\ last.status = "ok"
    /\ Len(SearchResults) = 2
    /\ SearchResults[1].alignment = <<"9", "5", "%">>
    /\ get_seq(parts[SearchResults[1].entryInfo.id].seq) = last.arg
    /\ Len(PerfectResults) = 1
    /\ Cardinality(Where(log, "get_meta")) = 1
    /\ Len(last.ret) = 1
    /\ last.ret[1].metadata["id"] = SearchResults[2].entryInfo.id

\* Two results at 100%, the later entry first, one of them with another
\* sequence: two fetches, one record returned.
C13_WitnessOtherSequence ==
    /\ Searched
    /\ last.status = "ok"
    /\ Len(PerfectResults) = 2
    /\ PerfectResults[1].entryInfo.id = 2
    /\ Cardinality(Where(log, "get_meta")) = 2
    /\ Len(last.ret) = 1
    /\ last.ret[1].metadata["id"] = 1

\* Two results at 100% for entries that hold the sequence searched for, the
\* later entry first: two records, in the order of the results.
C13_WitnessOrder ==
    /\ Searched
    /\ last.status = "ok"
    /\ Len(last.ret) = 2
    /\ last.ret[1].metadata["id"] = 2
    /\ last.ret[2].metadata["id"] = 1

\* n in decimal, with zeros on the left up to six digits.
Padded(n) ==
    LET d == Str(n)
        pad == IF Len(d) >= 6 THEN 0 ELSE 6 - Len(d)
    IN  [i \in 1..(pad + Len(d)) |-> IF i <= pad THEN "0" ELSE d[i - pad]]

\* C14: get_ice_id(n, p) is p followed by n zero-padded to at least six
\* digits, never truncated, and get_ice_number(get_ice_id(n, p), p) is str(n),
\* for every id n and every prefix p.
C14_RoundTrip ==
    /\ last.op = "get_ice_id" => last.ret = last.arg.p \o Padded(last.arg.n)
    /\ (last.op = "get_ice_number" /\ last.arg.str) =>
          last.status = "ok" /\ last.ret = Str(last.arg.n)

\* The round trip for the prefixes that are not made of digits only, and the
\* display form for all: these hold.
C14_RoundTripOtherPrefixes ==
    /\ last.op = "get_ice_id" => last.ret = last.arg.p \o Padded(last.arg.n)
    /\ (/\ last.op = "get_ice_number"
        /\ last.arg.str
        /\ (last.arg.p = <<>>
            \/ \E i \in 1..Len(last.arg.p) : ~IsDigit(last.arg.p[i]))) =>
          last.status = "ok" /\ last.ret = Str(last.arg.n)

\* C15: a record that get_ice_entry returned or set_ice_entry saved, through
\* a client with any prefix, has as its display id the display form of its
\* numeric id under the client's prefix, and the client's codec maps that
\* display id to the same number as the numeric id.
C15_DisplayIdUnderClientPrefix ==
    (last.op \in {"get_ice_entry", "set_ice_entry"} /\ last.status = "ok") =>
        /\ entry_get_ice_id(metadata) = get_ice_id(metadata["id"], id_prefix)
        /\ get_ice_number(StrId(entry_get_ice_id(metadata)), id_prefix)
              = get_ice_number(NumId(metadata["id"]), id_prefix)

\* C16: ICEEntry(...) with neither a type nor a metadata mapping fails, and
\* every record that was constructed has a type that is not None.
C16_ConstructedHasType ==
    last.op = "new_entry" =>
        /\ (last.arg.typ = None /\ ~last.arg.has_md) =>
              last.status = AssertionError
        /\ last.status = "ok" => entry_get_type(metadata) # None

\* C17: the first request of a set_ice_entry, a create or an update, submits
\* the record's metadata with a creator and a creatorEmail: the session's
\* user name and email where the record had none, and the record's own value
\* where it had one; every other key is submitted as the record had it.
C17_CreatorFilledNotOverwritten ==
    [][last'.op = "set_ice_entry" =>
        LET body == log'[1].body
        IN  /\ log'[1].op \in {"create", "update"}
            /\ {"creator", "creatorEmail"} \subseteq DOMAIN body
            /\ body["creator"] = IF "creator" \in DOMAIN metadata
                                  THEN metadata["creator"] ELSE user
            /\ body["creatorEmail"] = IF "creatorEmail" \in DOMAIN metadata
                                       THEN metadata["creatorEmail"]
                                       ELSE email
            /\ \A k \in DOMAIN metadata :
                  k \in DOMAIN body /\ body[k] = metadata[k]]_vars

\* A create that submits the record's own creator and the session's email.
C17_Witness ==
    /\ Saved
    /\ log[1].op = "create"
    /\ log[1].ok
    /\ log[1].body["creator"] = OtherCreator
    /\ log[1].body["creatorEmail"] = AccountEmail
    /\ user # OtherCreator

\* An update that submits the session's user name and the record's own
\* creatorEmail.
C17_WitnessUpdate ==
    /\ Saved
    /\ log[1].op = "update"
    /\ log[1].ok
    /\ log[1].body["creator"] = user
    /\ log[1].body["creatorEmail"] = OtherEmail
    /\ email # OtherEmail

\* C18: a set_ice_entry of the record that the get_ice_entry just before it
\* returned, nothing having touched the record in between, sends no delete
\* of the remote sequence and no upload.
C18_FetchedRecordIsClean ==
    [][(/\ last.op = "get_ice_entry"
        /\ last.status = "ok"
        /\ last'.op = "set_ice_entry") =>
            /\ Where(log', "delete_seq") = {}
            /\ Where(log', "upload") = {}]_vars

\* C19: when set_ice_entry has returned, the record's updated flag is false,
\* whatever the record was like when it was called.
C19_SavedMeansClean == SavedOk => ~sbol_doc_updated

\* A set_ice_entry of a record without an id has raised after its create
\* request was served.
FailedAfterCreate ==
    /\ Saved
    /\ last.pre.id = 0
    /\ log[1].op = "create"
    /\ log[1].ok
    /\ last.status # "ok"

\* C20: when a set_ice_entry of a record without an id raises after its
\* create request was served, the record carries the id the create returned,
\* and a set_ice_entry of the same record right after it sends an update of
\* that id and creates no entry.
C20_RetryTakesUpdatePath ==
    [][(FailedAfterCreate /\ last'.op = "set_ice_entry") =>
          /\ "id" \in DOMAIN metadata
          /\ metadata["id"] = log[1].resp["id"]
          /\ log'[1].op = "update"
          /\ log'[1].target = Str(log[1].resp["id"])
          /\ ExistingParts(parts') = ExistingParts(parts)]_vars

\* The same, for the failures after the first refresh: these retries do
\* take the update path.
C20_RetryAfterRefresh ==
    [][(FailedAfterCreate /\ Refreshed /\ last'.op = "set_ice_entry") =>
          /\ metadata["id"] = log[1].resp["id"]
          /\ log'[1].op = "update"
          /\ log'[1].target = Str(log[1].resp["id"])
          /\ ExistingParts(parts') = ExistingParts(parts)]_vars

====
